---- MODULE Spec2Model ----
(***************************************************************************)
(* The visualization-launcher form of form_venus_app.                      *)
(*                                                                         *)
(* The repository holds three revisions of the same React component App:   *)
(*   "mui"     src/src/App.tsx 1-324    MUI widgets, variant is a string,  *)
(*                                      entryUid/contentType are typed in  *)
(*   "venus"   src/src/App.tsx 325-688  Venus widgets, variant is an       *)
(*                                      option object, ids are typed in    *)
(*   "sidebar" src/unnamed/part_000     Venus widgets, ids come from the   *)
(*                                      host SDK, a stack id is added      *)
(* The revision is fixed at construction; every handler is one atomic      *)
(* action (the browser runs event handlers and promise callbacks to        *)
(* completion on a single thread).                                         *)
(*                                                                         *)
(* Text is modelled as sequences of character codes (0..127), so that      *)
(* JSON.stringify, the OpenSSL/base64 formatting of the ciphertext and     *)
(* btoa are computed, not assumed.  The AES block cipher itself is         *)
(* replaced by a keyed, salted byte substitution with the same framing     *)
(* (PKCS#7 padding to 16-byte blocks, "Salted__" header, random salt).     *)
(***************************************************************************)
EXTENDS Integers, Sequences, FiniteSets, TLC

\* ------------------------------------------------------------------ bounds
\* Longest text a user types or the host returns.
MaxTextLen == 1
\* Number of distinct random salts CryptoJS may draw.
NumSalts == 1

\* --------------------------------------------------------------- text data
Utf8Table ==
    "" :> <<>> @@
    "environments" :> <<101, 110, 118, 105, 114, 111, 110, 109, 101, 110, 116, 115>> @@
    "locales" :> <<108, 111, 99, 97, 108, 101, 115>> @@
    "variant" :> <<118, 97, 114, 105, 97, 110, 116>> @@
    "entryUid" :> <<101, 110, 116, 114, 121, 85, 105, 100>> @@
    "contentType" :> <<99, 111, 110, 116, 101, 110, 116, 84, 121, 112, 101>> @@
    "stackAPI" :> <<115, 116, 97, 99, 107, 65, 80, 73>> @@
    "id" :> <<105, 100>> @@
    "label" :> <<108, 97, 98, 101, 108>> @@
    "value" :> <<118, 97, 108, 117, 101>> @@
    "production" :> <<112, 114, 111, 100, 117, 99, 116, 105, 111, 110>> @@
    "staging" :> <<115, 116, 97, 103, 105, 110, 103>> @@
    "development" :> <<100, 101, 118, 101, 108, 111, 112, 109, 101, 110, 116>> @@
    "en-us" :> <<101, 110, 45, 117, 115>> @@
    "fr-fr" :> <<102, 114, 45, 102, 114>> @@
    "es" :> <<101, 115>> @@
    "Select Variant" :> <<83, 101, 108, 101, 99, 116, 32, 86, 97, 114, 105, 97, 110, 116>> @@
    "Business Audience" :> <<66, 117, 115, 105, 110, 101, 115, 115, 32, 65, 117, 100, 105, 101, 110, 99, 101>> @@
    "Tech Enthusiasts" :> <<84, 101, 99, 104, 32, 69, 110, 116, 104, 117, 115, 105, 97, 115, 116, 115>> @@
    "business" :> <<98, 117, 115, 105, 110, 101, 115, 115>> @@
    "tech" :> <<116, 101, 99, 104>> @@
    "Salted__" :> <<83, 97, 108, 116, 101, 100, 95, 95>> @@
    "data" :> <<100, 97, 116, 97>> @@
    "https://demo-graph.contentstackapps.com" :> <<104, 116, 116, 112, 115, 58, 47, 47, 100, 101, 109, 111, 45, 103, 114, 97, 112, 104, 46, 99, 111, 110, 116, 101, 110, 116, 115, 116, 97, 99, 107, 97, 112, 112, 115, 46, 99, 111, 109>> @@
    "https://demo-graph-refactored.contentstackapps.com/" :> <<104, 116, 116, 112, 115, 58, 47, 47, 100, 101, 109, 111, 45, 103, 114, 97, 112, 104, 45, 114, 101, 102, 97, 99, 116, 111, 114, 101, 100, 46, 99, 111, 110, 116, 101, 110, 116, 115, 116, 97, 99, 107, 97, 112, 112, 115, 46, 99, 111, 109, 47>>

\* The character codes of a string literal of the source.
Utf8(s) ==
    Utf8Table[s]

\* Characters the sample texts are made of: '"', 'e', '\', TAB.
TextAlphabet ==
    <<34, 101, 92, 9>>

\* Where in the alphabet the sample texts of an identifier start, so that
\* the identifiers are told apart: an entry uid starts with '"', a content
\* type with 'e', a stack API key with '\'.
TextOffset(kind) ==
    CASE kind = "entryUid" -> 0
      [] kind = "contentType" -> 1
      [] kind = "stackAPI" -> 2

\* The sample text of length n for an identifier.
Text(kind, n) ==
    [j \in 1..n |-> TextAlphabet[((TextOffset(kind) + j - 1) % Len(TextAlphabet)) + 1]]

\* The texts a user types into, or the host returns for, an identifier.
Texts(kind) ==
    {Text(kind, n) : n \in 0..MaxTextLen}

RECURSIVE Flatten(_)
Flatten(ss) ==
    IF ss = <<>> THEN <<>> ELSE Head(ss) \o Flatten(Tail(ss))

\* ------------------------------------------------------------------ base64
Base64Alphabet ==
    <<65, 66, 67, 68, 69, 70, 71, 72, 73, 74, 75, 76, 77, 78, 79, 80, 81, 82,
      83, 84, 85, 86, 87, 88, 89, 90, 97, 98, 99, 100, 101, 102, 103, 104, 105,
      106, 107, 108, 109, 110, 111, 112, 113, 114, 115, 116, 117, 118, 119,
      120, 121, 122, 48, 49, 50, 51, 52, 53, 54, 55, 56, 57, 43, 47>>

\* '='
PadChar ==
    61

\* Standard base64 with '=' padding: three bytes give four sextets.
Base64Encode(s) ==
    LET n == Len(s)
        full == n \div 3
        rest == n % 3
        char(j) ==
            LET b == 3 * ((j - 1) \div 4)
                k == (j - 1) % 4
            IN  Base64Alphabet[
                    (CASE k = 0 -> s[b + 1] \div 4
                       [] k = 1 -> (s[b + 1] % 4) * 16 + (s[b + 2] \div 16)
                       [] k = 2 -> (s[b + 2] % 16) * 4 + (s[b + 3] \div 64)
                       [] OTHER -> s[b + 3] % 64) + 1]
        last ==
            CASE rest = 0 -> <<>>
              [] rest = 1 -> <<Base64Alphabet[(s[n] \div 4) + 1],
                               Base64Alphabet[(s[n] % 4) * 16 + 1],
                               PadChar, PadChar>>
              [] OTHER -> <<Base64Alphabet[(s[n - 1] \div 4) + 1],
                            Base64Alphabet[(s[n - 1] % 4) * 16 + (s[n] \div 16) + 1],
                            Base64Alphabet[(s[n] % 16) * 4 + 1],
                            PadChar>>
    IN  [j \in 1..(4 * full) |-> char(j)] \o last

\* window.btoa on a string of characters below 256.
Btoa(s) ==
    Base64Encode(s)

\* -------------------------------------------------------------------- JSON
\* A JavaScript value as JSON sees it: a string [str], a number [num], an
\* array [arr] or an object [obj], the object's members in insertion order.
JStr(s) ==
    [str |-> s]

JNum(n) ==
    [num |-> n]

JArr(vs) ==
    [arr |-> vs]

JObj(members) ==
    [obj |-> members]

Member(key, v) ==
    [k |-> Utf8(key), v |-> v]

HexDigit(d) ==
    IF d < 10 THEN 48 + d ELSE 87 + d

\* Faulty variant: characters are copied without escaping.
JsonEscape_Raw(c) ==
    <<c>>

\* JSON.stringify's escaping of one character of a string.
JsonEscape(c) ==
    CASE c = 34 -> <<92, 34>>
      [] c = 92 -> <<92, 92>>
      [] c = 8  -> <<92, 98>>
      [] c = 12 -> <<92, 102>>
      [] c = 10 -> <<92, 110>>
      [] c = 13 -> <<92, 114>>
      [] c = 9  -> <<92, 116>>
      [] c < 32 /\ c \notin {8, 9, 10, 12, 13} ->
            <<92, 117, 48, 48, HexDigit(c \div 16), HexDigit(c % 16)>>
      [] OTHER -> <<c>>

JsonQuote(s) ==
    <<34>> \o Flatten([i \in 1..Len(s) |-> JsonEscape(s[i])]) \o <<34>>

RECURSIVE JsonDigits(_)
JsonDigits(n) ==
    IF n < 10 THEN <<48 + n>> ELSE JsonDigits(n \div 10) \o <<48 + (n % 10)>>

RECURSIVE JsonJoin(_)
JsonJoin(parts) ==
    IF parts = <<>> THEN <<>>
    ELSE IF Len(parts) = 1 THEN parts[1]
    ELSE parts[1] \o <<44>> \o JsonJoin(Tail(parts))

RECURSIVE JsonStringify(_)
JsonStringify(v) ==
    IF "str" \in DOMAIN v THEN JsonQuote(v.str)
    ELSE IF "num" \in DOMAIN v THEN JsonDigits(v.num)
    ELSE IF "arr" \in DOMAIN v THEN
        <<91>> \o JsonJoin([i \in 1..Len(v.arr) |-> JsonStringify(v.arr[i])]) \o <<93>>
    ELSE
        <<123>>
        \o JsonJoin([i \in 1..Len(v.obj) |->
                JsonQuote(v.obj[i].k) \o <<58>> \o JsonStringify(v.obj[i].v)])
        \o <<125>>

\* ------------------------------------------------------------- encryption
\* import.meta.env.VITE_APP_ENCRYPT_SECRET: a build-time passphrase ("s3cr3t"
\* stands for whatever the deployment configures).
EncryptSecret ==
    <<115, 51, 99, 114, 51, 116>>

BlockSize ==
    16

SaltLen ==
    8

\* The salt CryptoJS draws for the r-th possible outcome of its random source.
Salt(r) ==
    [i \in 1..SaltLen |-> (37 * r + 11 * i + 5) % 256]

Salts ==
    0..(NumSalts - 1)

RECURSIVE SumBytes(_)
SumBytes(s) ==
    IF s = <<>> THEN 0 ELSE Head(s) + SumBytes(Tail(s))

\* Stand-in for the key material EvpKDF derives from passphrase and salt:
\* a seed from the passphrase, and one key byte per position.
KeySeed(pass) ==
    SumBytes(pass) % 256

KeyByte(seed, salt, i) ==
    (seed + 31 * salt[((i - 1) % SaltLen) + 1] + 7 * i) % 256

\* PKCS#7: always pads, up to the next multiple of the block size.
Pkcs7Pad(msg) ==
    LET p == BlockSize - (Len(msg) % BlockSize)
    IN  msg \o [i \in 1..p |-> p]

\* Faulty variant: the cipher output is rendered as a Latin-1 string
\* (toString(CryptoJS.enc.Latin1)), not as the default base64 text.
AESEncryptToString_Latin1(msg, pass, r) ==
    LET salt == Salt(r)
        seed == KeySeed(pass)
        padded == Pkcs7Pad(msg)
        ct == [i \in 1..Len(padded) |-> (padded[i] + KeyByte(seed, salt, i)) % 256]
    IN  Utf8("Salted__") \o salt \o ct

\* CryptoJS.AES.encrypt(msg, pass).toString(): the OpenSSL-compatible
\* string base64("Salted__" + salt + ciphertext).
AESEncryptToString(msg, pass, r) ==
    LET salt == Salt(r)
        seed == KeySeed(pass)
        padded == Pkcs7Pad(msg)
        ct == [i \in 1..Len(padded) |-> (padded[i] + KeyByte(seed, salt, i)) % 256]
    IN  Base64Encode(Utf8("Salted__") \o salt \o ct)

\* ------------------------------------------------------------------ state
VARIABLES
    revision,      \* which revision of App is mounted: "mui", "venus", "sidebar"
    environments,  \* form value environments: [name -> BOOLEAN]
    locales,       \* form value locales: [name -> BOOLEAN]
    variant,       \* form value variant: a string ("mui") or an option object
    entryUid,      \* form value (mui, venus) or useState (sidebar)
    contentType,   \* form value (mui, venus) or useState (sidebar)
    stackAPI,      \* useState (sidebar only)
    formErrors,    \* useState: sequence of [path, message]
    sdkState,      \* ContentStackAppSDK.init(): "none", "pending", "resolved"
    sdkContext,    \* what the host resolved init() with
    opened,        \* window.open calls made by the latest event
    alerts,        \* alert dialogs raised by the latest event
    logged,        \* console.log calls made by the latest event
    lastEvent      \* the latest event: "init", "submit", "sdk" or a field name

vars ==
    <<revision, environments, locales, variant, entryUid, contentType, stackAPI,
      formErrors, sdkState, sdkContext, opened, alerts, logged, lastEvent>>

Revisions ==
    {"mui", "venus", "sidebar"}

\* Key order of defaultValues.environments / defaultValues.locales.
EnvironmentNames ==
    <<"production", "staging", "development">>

LocaleNames ==
    <<"en-us", "fr-fr", "es">>

\* The <MenuItem> values of the MUI select.
MenuItemValues ==
    {"", "business", "tech"}

\* The options of the Venus select.
VariantOptions ==
    { [id |-> 0, label |-> "Select Variant", value |-> ""],
      [id |-> 1, label |-> "Business Audience", value |-> "business"],
      [id |-> 2, label |-> "Tech Enthusiasts", value |-> "tech"] }

DefaultVariant(rev) ==
    IF rev = "mui" THEN ""
    ELSE [id |-> 0, label |-> "Select Variant", value |-> ""]

\* Whether the revision's form has the entryUid and contentType inputs.
HasTextFields(rev) ==
    rev \in {"mui", "venus"}

\* An optional host value: <<>> is undefined, <<t>> is the string t.
HostValues(kind) ==
    {<<>>} \cup {<<t>> : t \in Texts(kind)}

\* appSdk.location.SidebarWidget and the three leaves the effect reads.
HostContexts ==
    { [widget |-> FALSE, content_type |-> <<>>, uid |-> <<>>, api_key |-> <<>>] }
    \cup [widget : {TRUE}, content_type : HostValues("contentType"),
          uid : HostValues("entryUid"), api_key : HostValues("stackAPI")]

NoContext ==
    [widget |-> FALSE, content_type |-> <<>>, uid |-> <<>>, api_key |-> <<>>]

\* x || "" on an optional string.
OrEmpty(x) ==
    IF x = <<>> THEN <<>> ELSE x[1]

Init ==
    /\ revision \in Revisions
    /\ environments = [e \in {"production", "staging", "development"} |-> FALSE]
    /\ locales = [l \in {"en-us", "fr-fr", "es"} |-> FALSE]
    /\ variant = DefaultVariant(revision)
    /\ entryUid = <<>>
    /\ contentType = <<>>
    /\ stackAPI = <<>>
    /\ formErrors = <<>>
    /\ sdkState = IF revision = "sidebar" THEN "pending" ELSE "none"
    /\ sdkContext = NoContext
    /\ opened = <<>>
    /\ alerts = <<>>
    /\ logged = 0
    /\ lastEvent = "init"

\* ------------------------------------------------------------- validation
\* getValues(): the form values react-hook-form holds.
GetValues ==
    [environments |-> environments, locales |-> locales, variant |-> variant,
     entryUid |-> entryUid, contentType |-> contentType]

\* Object.values(data).some(Boolean)
SomeChecked(boxes) ==
    \E k \in DOMAIN boxes : boxes[k]

VariantMessage(rev) ==
    IF rev = "mui" THEN "Please select a variant" ELSE "Variant is required"

\* The issues of the variant member: z.string().min(1) in "mui", an object
\* of id/label/value with label and value min(1) in the others.
VariantIssues(rev, v) ==
    IF rev = "mui"
    THEN IF Len(Utf8(v)) < 1
         THEN <<[path |-> <<"variant">>, message |-> VariantMessage(rev)]>>
         ELSE <<>>
    ELSE (IF Len(Utf8(v.label)) < 1
          THEN <<[path |-> <<"variant", "label">>, message |-> VariantMessage(rev)]>>
          ELSE <<>>)
         \o
         (IF Len(Utf8(v.value)) < 1
          THEN <<[path |-> <<"variant", "value">>, message |-> VariantMessage(rev)]>>
          ELSE <<>>)

\* Faulty variant: the minimum length is two.
MinOneIssues_MinTwo(field, s, message) ==
    IF Len(s) < 2 THEN <<[path |-> <<field>>, message |-> message]>> ELSE <<>>

\* z.string().min(1, message) on a top-level member.
MinOneIssues(field, s, message) ==
    IF Len(s) < 1 THEN <<[path |-> <<field>>, message |-> message]>> ELSE <<>>

\* Faulty variant: the locales member is not refined.
SafeParse_IgnoresLocales(rev, data) ==
    (IF SomeChecked(data.environments) THEN <<>>
     ELSE <<[path |-> <<"environments">>,
             message |-> "Please select at least one environment"]>>)
    \o
    VariantIssues(rev, data.variant)
    \o
    (IF HasTextFields(rev)
     THEN (IF Len(data.entryUid) < 1
           THEN <<[path |-> <<"entryUid">>, message |-> "Entry UID is required"]>>
           ELSE <<>>)
          \o
          (IF Len(data.contentType) < 1
           THEN <<[path |-> <<"contentType">>, message |-> "Content Type is required"]>>
           ELSE <<>>)
     ELSE <<>>)

\* formSchema.safeParse(data).error.errors: the issues in the order zod
\* visits the members of the schema (<<>> when parsing succeeds).
SafeParse(rev, data) ==
    (IF SomeChecked(data.environments) THEN <<>>
     ELSE <<[path |-> <<"environments">>,
             message |-> "Please select at least one environment"]>>)
    \o
    (IF SomeChecked(data.locales) THEN <<>>
     ELSE <<[path |-> <<"locales">>,
             message |-> "Please select at least one locale"]>>)
    \o
    VariantIssues(rev, data.variant)
    \o
    (IF HasTextFields(rev)
     THEN MinOneIssues("entryUid", data.entryUid, "Entry UID is required")
          \o MinOneIssues("contentType", data.contentType, "Content Type is required")
     ELSE <<>>)

\* Faulty variant: the last path element is taken instead of the first.
ErrorMessages_LastPathElement(issues) ==
    [i \in 1..Len(issues) |->
        [path |-> issues[i].path[Len(issues[i].path)], message |-> issues[i].message]]

\* errors.map(error => ({ path: error.path[0], message: error.message }))
ErrorMessages(issues) ==
    [i \in 1..Len(issues) |->
        [path |-> issues[i].path[1], message |-> issues[i].message]]

\* ---------------------------------------------------------------- payload
\* Faulty variant: the filter on `selected` is missing.
SelectedKeys_Unfiltered(names, boxes) ==
    JArr([i \in 1..Len(names) |-> JStr(Utf8(names[i]))])

\* Object.entries(boxes).filter(([_, selected]) => selected).map(([k]) => k)
SelectedKeys(names, boxes) ==
    LET picked == SelectSeq(names, LAMBDA k : boxes[k])
    IN  JArr([i \in 1..Len(picked) |-> JStr(Utf8(picked[i]))])

\* data.variant as a JSON value.
VariantJson(rev, v) ==
    IF rev = "mui" THEN JStr(Utf8(v))
    ELSE JObj(<<Member("id", JNum(v.id)),
                Member("label", JStr(Utf8(v.label))),
                Member("value", JStr(Utf8(v.value)))>>)

\* The object literal `result` of handleButtonClick.
Result(rev, data, uid, ctype, stack) ==
    JObj(<<Member("environments", SelectedKeys(EnvironmentNames, data.environments)),
           Member("locales", SelectedKeys(LocaleNames, data.locales)),
           Member("variant", VariantJson(rev, data.variant)),
           Member("entryUid", JStr(uid)),
           Member("contentType", JStr(ctype))>>
         \o (IF rev = "sidebar" THEN <<Member("stackAPI", JStr(stack))>> ELSE <<>>))

\* The address the template literal starts with.
UrlBase(rev) ==
    IF rev = "sidebar"
    THEN Utf8("https://demo-graph-refactored.contentstackapps.com/")
    ELSE Utf8("https://demo-graph.contentstackapps.com")

\* Faulty variant: the ciphertext string is interpolated without btoa.
OpenUrl_NoBtoa(rev, encryptedResult) ==
    UrlBase(rev) \o <<63>> \o Utf8("data") \o <<61>> \o encryptedResult

\* `${base}?data=${btoa(encryptedResult)}`
OpenUrl(rev, encryptedResult) ==
    UrlBase(rev) \o <<63>> \o Utf8("data") \o <<61>> \o Btoa(encryptedResult)

\* The window.open call of handleButtonClick.
WindowOpen(rev, result, r) ==
    [url |-> OpenUrl(rev, AESEncryptToString(JsonStringify(result), EncryptSecret, r)),
     target |-> "_blank"]

\* ---------------------------------------------------------------- actions
AlertMessage ==
    "Entry Uid or Content type or Stack API could not be retrieved"

\* Faulty variant: only the entry uid is looked at.
HostContextMissing_OnlyEntryUid ==
    /\ revision = "sidebar"
    /\ entryUid = <<>>

\* if (!entryUid || !contentType || !stackAPI), sidebar revision only.
HostContextMissing ==
    /\ revision = "sidebar"
    /\ (entryUid = <<>> \/ contentType = <<>> \/ stackAPI = <<>>)

\* console.log calls of one handleButtonClick run that reached validation.
ConsoleLogs(rev, failed) ==
    (IF rev = "mui" THEN 0 ELSE 1) + (IF failed THEN 1 ELSE 0)

\* Faulty variant: the new errors are appended to the previous ones.
ValidateAndOpen_AppendsErrors ==
    LET data == GetValues
        issues == SafeParse(revision, data)
    IN  IF issues # <<>>
        THEN /\ formErrors' = formErrors \o ErrorMessages(issues)
             /\ opened' = <<>>
             /\ logged' = ConsoleLogs(revision, TRUE)
        ELSE /\ formErrors' = <<>>
             /\ \E r \in Salts :
                    opened' = <<WindowOpen(revision,
                                  Result(revision, data, entryUid,
                                         contentType, stackAPI), r)>>
             /\ logged' = ConsoleLogs(revision, FALSE)

\* The part of handleButtonClick after the host-context check:
\* getValues, safeParse, setFormErrors, and on success window.open.
ValidateAndOpen ==
    LET data == GetValues
        issues == SafeParse(revision, data)
    IN  IF issues # <<>>
        THEN /\ formErrors' = ErrorMessages(issues)
             /\ opened' = <<>>
             /\ logged' = ConsoleLogs(revision, TRUE)
        ELSE /\ formErrors' = <<>>
             /\ \E r \in Salts :
                    opened' = <<WindowOpen(revision,
                                  Result(revision, data, entryUid,
                                         contentType, stackAPI), r)>>
             /\ logged' = ConsoleLogs(revision, FALSE)

\* Faulty variant: the `return` after the alert is missing.
handleButtonClick_NoReturn ==
    /\ lastEvent' = "submit"
    /\ UNCHANGED <<revision, environments, locales, variant, entryUid,
                   contentType, stackAPI, sdkState, sdkContext>>
    /\ alerts' = IF HostContextMissing THEN <<AlertMessage>> ELSE <<>>
    /\ ValidateAndOpen

\* Faulty variant: a successful Submit resets the environment checkboxes.
handleButtonClick_ResetsForm ==
    /\ lastEvent' = "submit"
    /\ UNCHANGED <<revision, locales, variant, entryUid, contentType, stackAPI,
                   sdkState, sdkContext>>
    /\ IF HostContextMissing
       THEN /\ alerts' = <<AlertMessage>>
            /\ opened' = <<>>
            /\ logged' = 0
            /\ UNCHANGED <<formErrors, environments>>
       ELSE /\ alerts' = <<>>
            /\ ValidateAndOpen
            /\ environments' = IF SafeParse(revision, GetValues) = <<>>
                               THEN [e \in DOMAIN environments |-> FALSE]
                               ELSE environments

\* Submit: onClick={handleButtonClick}
handleButtonClick ==
    /\ lastEvent' = "submit"
    /\ UNCHANGED <<revision, environments, locales, variant, entryUid,
                   contentType, stackAPI, sdkState, sdkContext>>
    /\ IF HostContextMissing
       THEN /\ alerts' = <<AlertMessage>>
            /\ opened' = <<>>
            /\ logged' = 0
            /\ UNCHANGED formErrors
       ELSE /\ alerts' = <<>>
            /\ ValidateAndOpen

\* Faulty variant: a change clears the whole list.
handleFieldChange_ClearsAll(fieldName) ==
    /\ formErrors' = <<>>
    /\ lastEvent' = fieldName
    /\ opened' = <<>>
    /\ alerts' = <<>>
    /\ logged' = 0

\* setFormErrors(prev => prev.filter(error => error.path !== fieldName))
handleFieldChange(fieldName) ==
    /\ formErrors' = SelectSeq(formErrors, LAMBDA error : error.path # fieldName)
    /\ lastEvent' = fieldName
    /\ opened' = <<>>
    /\ alerts' = <<>>
    /\ logged' = 0

\* onChange of an environment checkbox.
ToggleEnvironment(name) ==
    /\ environments' = [environments EXCEPT ![name] = ~@]
    /\ handleFieldChange("environments")
    /\ UNCHANGED <<revision, locales, variant, entryUid, contentType, stackAPI,
                   sdkState, sdkContext>>

\* Faulty variant: the locale checkboxes report a change of "environments".
ToggleLocale_WrongField(name) ==
    /\ locales' = [locales EXCEPT ![name] = ~@]
    /\ handleFieldChange("environments")
    /\ UNCHANGED <<revision, environments, variant, entryUid, contentType,
                   stackAPI, sdkState, sdkContext>>

\* onChange of a locale checkbox.
ToggleLocale(name) ==
    /\ locales' = [locales EXCEPT ![name] = ~@]
    /\ handleFieldChange("locales")
    /\ UNCHANGED <<revision, environments, variant, entryUid, contentType,
                   stackAPI, sdkState, sdkContext>>

\* onChange of the MUI variant select ("mui"): fires for a new value only.
SelectMenuItem(value) ==
    /\ revision = "mui"
    /\ value # variant
    /\ variant' = value
    /\ handleFieldChange("variant")
    /\ UNCHANGED <<revision, environments, locales, entryUid, contentType,
                   stackAPI, sdkState, sdkContext>>

\* onChange of the Venus variant select: the chosen option object.
SelectOption(option) ==
    /\ revision \in {"venus", "sidebar"}
    /\ variant' = option
    /\ handleFieldChange("variant")
    /\ UNCHANGED <<revision, environments, locales, entryUid, contentType,
                   stackAPI, sdkState, sdkContext>>

\* onChange of the Entry uid input.
TypeEntryUid(text) ==
    /\ HasTextFields(revision)
    /\ text # entryUid
    /\ entryUid' = text
    /\ handleFieldChange("entryUid")
    /\ UNCHANGED <<revision, environments, locales, variant, contentType,
                   stackAPI, sdkState, sdkContext>>

\* onChange of the Content Type input.
TypeContentType(text) ==
    /\ HasTextFields(revision)
    /\ text # contentType
    /\ contentType' = text
    /\ handleFieldChange("contentType")
    /\ UNCHANGED <<revision, environments, locales, variant, entryUid,
                   stackAPI, sdkState, sdkContext>>

\* Faulty variant: the setters of content type and entry uid are swapped.
SdkInitResolved_Swapped(ctx) ==
    /\ sdkState = "pending"
    /\ sdkState' = "resolved"
    /\ sdkContext' = ctx
    /\ contentType' = OrEmpty(ctx.uid)
    /\ entryUid' = OrEmpty(ctx.content_type)
    /\ stackAPI' = OrEmpty(ctx.api_key)
    /\ lastEvent' = "sdk"
    /\ opened' = <<>>
    /\ alerts' = <<>>
    /\ logged' = 0
    /\ UNCHANGED <<revision, environments, locales, variant, formErrors>>

\* The .then callback of ContentStackAppSDK.init() in useEffect(..., []).
SdkInitResolved(ctx) ==
    /\ sdkState = "pending"
    /\ sdkState' = "resolved"
    /\ sdkContext' = ctx
    /\ contentType' = OrEmpty(ctx.content_type)
    /\ entryUid' = OrEmpty(ctx.uid)
    /\ stackAPI' = OrEmpty(ctx.api_key)
    /\ lastEvent' = "sdk"
    /\ opened' = <<>>
    /\ alerts' = <<>>
    /\ logged' = 0
    /\ UNCHANGED <<revision, environments, locales, variant, formErrors>>

Next ==
    \/ handleButtonClick
    \/ \E name \in DOMAIN environments : ToggleEnvironment(name)
    \/ \E name \in DOMAIN locales : ToggleLocale(name)
    \/ \E value \in MenuItemValues : SelectMenuItem(value)
    \/ \E option \in VariantOptions : SelectOption(option)
    \/ \E text \in Texts("entryUid") : TypeEntryUid(text)
    \/ \E text \in Texts("contentType") : TypeContentType(text)
    \/ \E ctx \in HostContexts : SdkInitResolved(ctx)

Spec ==
    Init /\ [][Next]_vars

\* =========================================================================
\* The receiving side, as the claims speak of it: what a reader of the
\* opened URL recovers.  These are reference decoders, written against the
\* formats (URL query strings, RFC 4648 base64, the OpenSSL salted format,
\* PKCS#7, JSON), not against the encoders above.
\* =========================================================================

\* Position of the first c in s at or after i, or Len(s) + 1.
IndexFrom(s, c, i) ==
    LET hits == {j \in i..Len(s) : s[j] = c}
    IN  IF hits = {} THEN Len(s) + 1
        ELSE CHOOSE j \in hits : \A k \in hits : j <= k

\* The part of a URL before '?', and the query after it (up to '#').
UrlBeforeQuery(url) ==
    SubSeq(url, 1, IndexFrom(url, 63, 1) - 1)

UrlQuery(url) ==
    LET q == IndexFrom(url, 63, 1)
        h == IndexFrom(url, 35, q + 1)
    IN  SubSeq(url, q + 1, h - 1)

\* application/x-www-form-urlencoded decoding of one name or value:
\* '+' reads as a space (no '%' escapes occur in the texts handled here).
FormDecode(s) ==
    [i \in 1..Len(s) |-> IF s[i] = 43 THEN 32 ELSE s[i]]

\* The query split at '&', each piece at its first '='.
RECURSIVE QueryPairs(_, _)
QueryPairs(q, i) ==
    IF i > Len(q) THEN <<>>
    ELSE LET amp == IndexFrom(q, 38, i)
             piece == SubSeq(q, i, amp - 1)
             eq == IndexFrom(piece, 61, 1)
             pair == [name |-> FormDecode(SubSeq(piece, 1, eq - 1)),
                      value |-> FormDecode(SubSeq(piece, eq + 1, Len(piece)))]
         IN  (IF piece = <<>> THEN <<>> ELSE <<pair>>) \o QueryPairs(q, amp + 1)

QueryParams(url) ==
    QueryPairs(UrlQuery(url), 1)

\* The sextet each character code 0..127 stands for in base64, or -1
\* (indexed by code + 1).
Base64Values ==
    <<
      -1, -1, -1, -1, -1, -1, -1, -1, -1, -1, -1, -1, -1, -1, -1, -1,
      -1, -1, -1, -1, -1, -1, -1, -1, -1, -1, -1, -1, -1, -1, -1, -1,
      -1, -1, -1, -1, -1, -1, -1, -1, -1, -1, -1, 62, -1, -1, -1, 63,
      52, 53, 54, 55, 56, 57, 58, 59, 60, 61, -1, -1, -1, -1, -1, -1,
      -1, 0, 1, 2, 3, 4, 5, 6, 7, 8, 9, 10, 11, 12, 13, 14,
      15, 16, 17, 18, 19, 20, 21, 22, 23, 24, 25, -1, -1, -1, -1, -1,
      -1, 26, 27, 28, 29, 30, 31, 32, 33, 34, 35, 36, 37, 38, 39, 40,
      41, 42, 43, 44, 45, 46, 47, 48, 49, 50, 51, -1, -1, -1, -1, -1
    >>

Base64Value(c) ==
    IF c >= 0 /\ c <= 127 THEN Base64Values[c + 1] ELSE -1

\* atob / base64 decoding: [ok, bytes].
Base64Decode(s) ==
    LET n == Len(s)
        pad == IF n >= 2 /\ s[n] = 61 /\ s[n - 1] = 61 THEN 2
               ELSE IF n >= 1 /\ s[n] = 61 THEN 1 ELSE 0
        wellFormed ==
            /\ n % 4 = 0
            /\ \A i \in 1..(n - pad) : Base64Value(s[i]) >= 0
        full == (n - pad) \div 4
        byte(k) ==
            LET q == 4 * ((k - 1) \div 3)
                m == (k - 1) % 3
            IN  CASE m = 0 -> Base64Value(s[q + 1]) * 4 + (Base64Value(s[q + 2]) \div 16)
                  [] m = 1 -> (Base64Value(s[q + 2]) % 16) * 16
                                + (Base64Value(s[q + 3]) \div 4)
                  [] OTHER -> (Base64Value(s[q + 3]) % 4) * 64 + Base64Value(s[q + 4])
        last ==
            CASE pad = 0 -> <<>>
              [] pad = 1 -> <<byte(3 * full + 1), byte(3 * full + 2)>>
              [] OTHER -> <<byte(3 * full + 1)>>
    IN  IF wellFormed
        THEN [ok |-> TRUE, bytes |-> [k \in 1..(3 * full) |-> byte(k)] \o last]
        ELSE [ok |-> FALSE, bytes |-> <<>>]

\* CryptoJS.AES.decrypt(str, pass) of an OpenSSL salted string: [ok, bytes].
AESDecryptString(str, pass) ==
    LET raw == Base64Decode(str)
        bytes == raw.bytes
        n == Len(bytes)
        m == n - 8 - SaltLen
        framed ==
            /\ raw.ok
            /\ m >= BlockSize
            /\ m % BlockSize = 0
            /\ SubSeq(bytes, 1, 8) = <<83, 97, 108, 116, 101, 100, 95, 95>>
        seed == SumBytes(pass) % 256
        key(i) == (seed + 31 * bytes[8 + ((i - 1) % SaltLen) + 1] + 7 * i) % 256
        plain(i) == (bytes[8 + SaltLen + i] + 256 - key(i)) % 256
        p == plain(m)
        unpadded ==
            /\ p >= 1
            /\ p <= BlockSize
            /\ \A i \in (m - p + 1)..m : plain(i) = p
    IN  IF framed /\ unpadded
        THEN [ok |-> TRUE, bytes |-> [i \in 1..(m - p) |-> plain(i)] \o <<>>]
        ELSE [ok |-> FALSE, bytes |-> <<>>]

\* JSON.parse, by recursive descent.  A parse step yields
\* [ok, v, next]: the value read and the position after it.
ParseFail ==
    [ok |-> FALSE, v |-> [num |-> 0], next |-> 0]

HexValue(c) ==
    CASE c >= 48 /\ c <= 57 -> c - 48
      [] c >= 97 /\ c <= 102 -> c - 87
      [] c >= 65 /\ c <= 70 -> c - 55
      [] OTHER -> -1

\* The characters of a string literal whose opening quote precedes i.
RECURSIVE ParseChars(_, _, _)
ParseChars(s, i, acc) ==
    IF i > Len(s) THEN ParseFail
    ELSE IF s[i] = 34 THEN [ok |-> TRUE, v |-> acc, next |-> i + 1]
    ELSE IF s[i] < 32 THEN ParseFail
    ELSE IF s[i] # 92 THEN ParseChars(s, i + 1, Append(acc, s[i]))
    ELSE IF i + 1 > Len(s) THEN ParseFail
    ELSE LET c == s[i + 1]
         IN  CASE c \in {34, 92, 47} -> ParseChars(s, i + 2, Append(acc, c))
               [] c = 98  -> ParseChars(s, i + 2, Append(acc, 8))
               [] c = 102 -> ParseChars(s, i + 2, Append(acc, 12))
               [] c = 110 -> ParseChars(s, i + 2, Append(acc, 10))
               [] c = 114 -> ParseChars(s, i + 2, Append(acc, 13))
               [] c = 116 -> ParseChars(s, i + 2, Append(acc, 9))
               [] c = 117 ->
                    IF i + 5 > Len(s) THEN ParseFail
                    ELSE LET h == [k \in 1..4 |-> HexValue(s[i + 1 + k])]
                         IN  IF \E k \in 1..4 : h[k] < 0 THEN ParseFail
                             ELSE ParseChars(s, i + 6,
                                    Append(acc, h[1] * 4096 + h[2] * 256 + h[3] * 16 + h[4]))
               [] OTHER -> ParseFail

RECURSIVE ParseDigits(_, _, _)
ParseDigits(s, i, acc) ==
    IF i <= Len(s) /\ s[i] >= 48 /\ s[i] <= 57
    THEN ParseDigits(s, i + 1, 10 * acc + (s[i] - 48))
    ELSE [ok |-> TRUE, v |-> [num |-> acc], next |-> i]

RECURSIVE ParseValue(_, _)
RECURSIVE ParseElements(_, _, _)
RECURSIVE ParseMembers(_, _, _)

ParseValue(s, i) ==
    IF i > Len(s) THEN ParseFail
    ELSE CASE s[i] = 34 ->
                LET r == ParseChars(s, i + 1, <<>>)
                IN  IF r.ok THEN [ok |-> TRUE, v |-> [str |-> r.v], next |-> r.next]
                    ELSE ParseFail
           [] s[i] >= 48 /\ s[i] <= 57 -> ParseDigits(s, i, 0)
           [] s[i] = 91 ->
                IF i + 1 <= Len(s) /\ s[i + 1] = 93
                THEN [ok |-> TRUE, v |-> [arr |-> <<>>], next |-> i + 2]
                ELSE ParseElements(s, i + 1, <<>>)
           [] s[i] = 123 ->
                IF i + 1 <= Len(s) /\ s[i + 1] = 125
                THEN [ok |-> TRUE, v |-> [obj |-> <<>>], next |-> i + 2]
                ELSE ParseMembers(s, i + 1, <<>>)
           [] OTHER -> ParseFail

ParseElements(s, i, acc) ==
    LET r == ParseValue(s, i)
    IN  IF ~r.ok \/ r.next > Len(s) THEN ParseFail
        ELSE IF s[r.next] = 44 THEN ParseElements(s, r.next + 1, Append(acc, r.v))
        ELSE IF s[r.next] = 93
             THEN [ok |-> TRUE, v |-> [arr |-> Append(acc, r.v)], next |-> r.next + 1]
        ELSE ParseFail

ParseMembers(s, i, acc) ==
    IF i > Len(s) \/ s[i] # 34 THEN ParseFail
    ELSE LET key == ParseChars(s, i + 1, <<>>)
         IN  IF ~key.ok \/ key.next > Len(s) \/ s[key.next] # 58 THEN ParseFail
             ELSE LET r == ParseValue(s, key.next + 1)
                      member == [k |-> key.v, v |-> r.v]
                  IN  IF ~r.ok \/ r.next > Len(s) THEN ParseFail
                      ELSE IF s[r.next] = 44
                           THEN ParseMembers(s, r.next + 1, Append(acc, member))
                      ELSE IF s[r.next] = 125
                           THEN [ok |-> TRUE, v |-> [obj |-> Append(acc, member)],
                                 next |-> r.next + 1]
                      ELSE ParseFail

\* JSON.parse(text): [ok, v].
JsonParse(text) ==
    LET r == ParseValue(text, 1)
    IN  IF r.ok /\ r.next = Len(text) + 1
        THEN [ok |-> TRUE, v |-> r.v]
        ELSE [ok |-> FALSE, v |-> [num |-> 0]]

\* What the reader of an opened URL recovers: the data parameter,
\* base64-decoded, decrypted with the shared secret and parsed.
DecodedPayload(url) ==
    LET params == QueryParams(url)
        found == SelectSeq(params, LAMBDA q : q.name = <<100, 97, 116, 97>>)
        b64 == Base64Decode(found[1].value)
        plain == AESDecryptString(b64.bytes, EncryptSecret)
    IN  IF found # <<>> /\ b64.ok /\ plain.ok
        THEN JsonParse(plain.bytes)
        ELSE [ok |-> FALSE, v |-> [num |-> 0]]

\* The value of member `key` of a parsed object (<<>> when absent,
\* <<v>> when present).
MemberOf(object, key) ==
    LET hits == SelectSeq(object.obj, LAMBDA m : m.k = key)
    IN  IF hits = <<>> THEN <<>> ELSE <<hits[Len(hits)].v>>

\* =========================================================================
\* The claims.  The predicates below restate the validation rules and the
\* expected payload in the claims' own terms.
\* =========================================================================
AnyEnvironmentChecked ==
    environments["production"] \/ environments["staging"] \/ environments["development"]

AnyLocaleChecked ==
    locales["en-us"] \/ locales["fr-fr"] \/ locales["es"]

VariantIsPlaceholder ==
    IF revision = "mui" THEN variant = "" ELSE variant.value = ""

\* The top-level fields the revision's schema validates.
SchemaFields ==
    IF revision = "sidebar"
    THEN {"environments", "locales", "variant"}
    ELSE {"environments", "locales", "variant", "entryUid", "contentType"}

FieldInvalid(f) ==
    CASE f = "environments" -> ~AnyEnvironmentChecked
      [] f = "locales" -> ~AnyLocaleChecked
      [] f = "variant" -> VariantIsPlaceholder
      [] f = "entryUid" -> entryUid = <<>>
      [] f = "contentType" -> contentType = <<>>

SchemaMessageOf(f) ==
    CASE f = "environments" -> "Please select at least one environment"
      [] f = "locales" -> "Please select at least one locale"
      [] f = "variant" -> IF revision = "mui" THEN "Please select a variant"
                          ELSE "Variant is required"
      [] f = "entryUid" -> "Entry UID is required"
      [] f = "contentType" -> "Content Type is required"

\* The identifiers the payload carries are all non-empty.
IdentifiersPresent ==
    /\ entryUid # <<>>
    /\ contentType # <<>>
    /\ revision = "sidebar" => stackAPI # <<>>

FormSatisfiesRules ==
    /\ \A f \in SchemaFields : ~FieldInvalid(f)
    /\ IdentifiersPresent

\* A Submit click with these values reaches validation and fails it.
FailsValidation ==
    /\ revision = "sidebar" => IdentifiersPresent
    /\ \E f \in SchemaFields : FieldInvalid(f)

FormValuesUnchanged ==
    UNCHANGED <<environments, locales, variant, entryUid, contentType, stackAPI>>

\* C1: a Submit click opens a URL only if, at the moment of the click, at
\* least one environment and one locale are checked, the variant is not the
\* placeholder and (where the form has the two text fields) entryUid and
\* contentType are non-empty; nothing but a Submit click opens a URL.
C1_OpensOnlyWhenValid ==
    [][ opened' # <<>> =>
            /\ lastEvent' = "submit"
            /\ AnyEnvironmentChecked
            /\ AnyLocaleChecked
            /\ ~VariantIsPlaceholder
            /\ revision \in {"mui", "venus"} =>
                    (entryUid # <<>> /\ contentType # <<>>) ]_vars

C1_Witness ==
    /\ lastEvent = "submit"
    /\ opened # <<>>
    /\ AnyEnvironmentChecked

\* C2: a Submit click on a form that satisfies every validation rule and
\* whose identifiers are non-empty opens exactly one URL, in a new tab, and
\* is not rejected (no error entry, no alert).
C2_ValidFormOpensOne ==
    (lastEvent = "submit" /\ FormSatisfiesRules) =>
        /\ Len(opened) = 1
        /\ opened[1].target = "_blank"
        /\ formErrors = <<>>
        /\ alerts = <<>>

C2_Witness ==
    /\ lastEvent = "submit"
    /\ FormSatisfiesRules
    /\ Len(opened) = 1
    /\ revision = "venus"

\* C3: after a Submit click whose values fail validation, every invalid
\* schema field has an entry with its name as path and the schema's message,
\* and no valid field has an entry.
C3_ErrorsNameInvalidFields ==
    (lastEvent = "submit" /\ FailsValidation) =>
        \A f \in SchemaFields :
            IF FieldInvalid(f)
            THEN \E i \in 1..Len(formErrors) :
                    formErrors[i] = [path |-> f, message |-> SchemaMessageOf(f)]
            ELSE \A i \in 1..Len(formErrors) : formErrors[i].path # f

C3_Witness ==
    /\ lastEvent = "submit"
    /\ FailsValidation
    /\ revision = "venus"
    /\ VariantIsPlaceholder
    /\ AnyEnvironmentChecked
    /\ Len(formErrors) >= 2

\* The list a payload must carry for a group of checkboxes: the checked
\* names, in the fixed order.
ExpectedList(names, boxes) ==
    [arr |-> (IF boxes[names[1]] THEN <<[str |-> Utf8(names[1])]>> ELSE <<>>)
             \o (IF boxes[names[2]] THEN <<[str |-> Utf8(names[2])]>> ELSE <<>>)
             \o (IF boxes[names[3]] THEN <<[str |-> Utf8(names[3])]>> ELSE <<>>)]

ExpectedVariant ==
    IF revision = "mui" THEN [str |-> Utf8(variant)]
    ELSE [obj |-> << [k |-> Utf8("id"), v |-> [num |-> variant.id]],
                     [k |-> Utf8("label"), v |-> [str |-> Utf8(variant.label)]],
                     [k |-> Utf8("value"), v |-> [str |-> Utf8(variant.value)]] >>]

\* C4: the payload of an opened URL lists exactly the checked environments
\* in the order production, staging, development, exactly the checked
\* locales in the order en-us, fr-fr, es, and carries the variant and the
\* identifiers as they stand at the click.
C4_PayloadMatchesForm ==
    opened # <<>> =>
        LET p == DecodedPayload(opened[1].url)
        IN  /\ p.ok
            /\ MemberOf(p.v, Utf8("environments")) =
                  <<ExpectedList(<<"production", "staging", "development">>, environments)>>
            /\ MemberOf(p.v, Utf8("locales")) =
                  <<ExpectedList(<<"en-us", "fr-fr", "es">>, locales)>>
            /\ MemberOf(p.v, Utf8("variant")) = <<ExpectedVariant>>
            /\ MemberOf(p.v, Utf8("entryUid")) = <<[str |-> entryUid]>>
            /\ MemberOf(p.v, Utf8("contentType")) = <<[str |-> contentType]>>
            /\ revision = "sidebar" =>
                    MemberOf(p.v, Utf8("stackAPI")) = <<[str |-> stackAPI]>>

C4_Witness ==
    /\ opened # <<>>
    /\ environments["production"]
    /\ ~environments["staging"]
    /\ environments["development"]
    /\ locales["fr-fr"]
    /\ ~locales["en-us"]

\* C5 as stated: no Submit click raises any user-visible effect other than
\* opening a URL, and one click opens at most one URL.
C5_OnlyEffectIsOpen ==
    /\ alerts = <<>>
    /\ Len(opened) <= 1

\* C5 amended: one click opens at most one URL; the only other user-visible
\* effect is the single alert dialog the sidebar revision raises on a Submit
\* click while a host identifier is empty, and that click opens nothing.
C5_OpenOrSidebarAlert ==
    /\ Len(opened) <= 1
    /\ Len(alerts) <= 1
    /\ alerts # <<>> =>
            /\ revision = "sidebar"
            /\ lastEvent = "submit"
            /\ ~IdentifiersPresent
            /\ opened = <<>>
    /\ (lastEvent = "submit" /\ alerts = <<>> /\ revision = "sidebar") =>
            IdentifiersPresent

C5_Witness ==
    /\ alerts # <<>>
    /\ FieldInvalid("environments")

\* The host resolved init() with a sidebar context whose leaf is a
\* non-empty string.
Retrieved(leaf) ==
    /\ sdkState = "resolved"
    /\ sdkContext.widget
    /\ leaf # <<>>
    /\ leaf[1] # <<>>

AllRetrieved ==
    /\ Retrieved(sdkContext.uid)
    /\ Retrieved(sdkContext.content_type)
    /\ Retrieved(sdkContext.api_key)

\* C6: in the sidebar revision the payload of an opened URL carries the entry
\* id, content type and stack identifier the host's sidebar context was
\* retrieved with, all non-empty; a Submit click while one of them is empty
\* opens nothing.
C6_PayloadCarriesHostContext ==
    /\ (revision = "sidebar" /\ opened # <<>>) =>
            LET p == DecodedPayload(opened[1].url)
            IN  /\ p.ok
                /\ AllRetrieved
                /\ MemberOf(p.v, Utf8("entryUid")) = <<[str |-> sdkContext.uid[1]]>>
                /\ MemberOf(p.v, Utf8("contentType")) =
                        <<[str |-> sdkContext.content_type[1]]>>
                /\ MemberOf(p.v, Utf8("stackAPI")) = <<[str |-> sdkContext.api_key[1]]>>
    /\ (revision = "sidebar" /\ lastEvent = "submit" /\ ~AllRetrieved) =>
            opened = <<>>

C6_Witness ==
    /\ revision = "sidebar"
    /\ opened # <<>>
    /\ sdkContext.uid # sdkContext.content_type

\* The address every URL of the revision must start with.
FixedAddress ==
    IF revision = "sidebar"
    THEN Utf8("https://demo-graph-refactored.contentstackapps.com/")
    ELSE Utf8("https://demo-graph.contentstackapps.com")

\* C7: an opened URL is the fixed address of the visualization tool followed
\* by a query of exactly one parameter, data, whose value is the base64
\* encoding of the ciphertext of the JSON payload; it is opened in a new tab.
C7_UrlShape ==
    opened # <<>> =>
        LET call == opened[1]
            params == QueryParams(call.url)
            payload == Result(revision, GetValues, entryUid, contentType, stackAPI)
        IN  /\ call.target = "_blank"
            /\ UrlBeforeQuery(call.url) = FixedAddress
            /\ IndexFrom(call.url, 35, 1) > Len(call.url)
            /\ Len(params) = 1
            /\ params[1].name = Utf8("data")
            /\ \E r \in Salts :
                    params[1].value =
                        Base64Encode(AESEncryptToString(JsonStringify(payload),
                                                        EncryptSecret, r))

C7_Witness ==
    /\ opened # <<>>
    /\ Len(QueryParams(opened[1].url)) = 1
    /\ revision = "mui"

\* The errors of the current values: one entry per invalid schema field, in
\* schema order.
ErrorFor(f) ==
    IF f \in SchemaFields /\ FieldInvalid(f)
    THEN <<[path |-> f, message |-> SchemaMessageOf(f)]>>
    ELSE <<>>

CurrentErrors ==
    ErrorFor("environments") \o ErrorFor("locales") \o ErrorFor("variant")
    \o ErrorFor("entryUid") \o ErrorFor("contentType")

\* C8: a Submit click that fails validation opens no URL, raises no alert,
\* leaves every form value as it was, and replaces the error list by the
\* errors of the current values.
C8_FailedSubmitOnlySetsErrors ==
    [][ (lastEvent' = "submit" /\ FailsValidation) =>
            /\ opened' = <<>>
            /\ alerts' = <<>>
            /\ FormValuesUnchanged
            /\ formErrors' = CurrentErrors ]_vars

\* A failed Submit after which the list is shorter than the schema: some
\* field was corrected since it was first reported.
C8_Witness ==
    /\ lastEvent = "submit"
    /\ FailsValidation
    /\ formErrors # <<>>
    /\ AnyLocaleChecked
    /\ ~AnyEnvironmentChecked

\* C9: base64-decoding the data parameter of an opened URL, decrypting with
\* the shared secret and parsing the JSON text gives back exactly the
\* submitted payload.
C9_DataRoundTrip ==
    opened # <<>> =>
        LET p == DecodedPayload(opened[1].url)
        IN  /\ p.ok
            /\ p.v = Result(revision, GetValues, entryUid, contentType, stackAPI)

\* A payload with a text that JSON has to escape.
C9_Witness ==
    /\ opened # <<>>
    /\ entryUid = <<34>>

ChangeEvents ==
    {"environments", "locales", "variant", "entryUid", "contentType"}

\* The positions of s whose entry is not for field f.
Kept(s, f) ==
    {i \in 1..Len(s) : s[i].path # f}

\* The k-th smallest element of a set of positions.
Nth(S, k) ==
    CHOOSE i \in S : Cardinality({j \in S : j <= i}) = k

\* C10: a change event on a field removes every error entry of that field,
\* whether or not the new value is valid, and keeps every other entry,
\* unchanged and in order; an entry for a field that had none appears only
\* at a failed Submit.
C10_ChangeClearsOwnErrors ==
    [][ /\ lastEvent' \in ChangeEvents =>
            LET keep == Kept(formErrors, lastEvent')
            IN  /\ Len(formErrors') = Cardinality(keep)
                /\ \A k \in 1..Len(formErrors') :
                        formErrors'[k] = formErrors[Nth(keep, k)]
        /\ (\E i \in 1..Len(formErrors') :
                \A j \in 1..Len(formErrors) : formErrors[j].path # formErrors'[i].path)
            => (lastEvent' = "submit" /\ FailsValidation) ]_vars

\* The placeholder was chosen again: its error is gone though the variant is
\* still invalid, and the entries of other fields are still there.
C10_Witness ==
    /\ lastEvent = "variant"
    /\ VariantIsPlaceholder
    /\ formErrors # <<>>
    /\ \A i \in 1..Len(formErrors) : formErrors[i].path # "variant"

\* C11: in every reachable state, every entry of the inline error list names
\* a field of the schema whose current value is invalid, with that field's
\* message: no error is displayed for a field that satisfies its rule.
C11_ErrorsOnlyForInvalidFields ==
    \A i \in 1..Len(formErrors) :
        /\ formErrors[i].path \in SchemaFields
        /\ FieldInvalid(formErrors[i].path)
        /\ formErrors[i].message = SchemaMessageOf(formErrors[i].path)

\* Two fields were reported, one has been corrected since: its entry is
\* gone, the other field's entry is still displayed.
C11_Witness ==
    /\ lastEvent = "locales"
    /\ AnyLocaleChecked
    /\ ~AnyEnvironmentChecked
    /\ \E i \in 1..Len(formErrors) : formErrors[i].path = "environments"

\* C12: in the sidebar revision a Submit click made before the host SDK's
\* init() has resolved, or after it resolved without a sidebar context or
\* with an empty entry uid, content type or stack API key, opens no URL,
\* leaves the error list and every form value as they were and does not
\* reach validation (nothing is logged, the first statement after the
\* host-context check being console.log(data)), whether or not the form is
\* valid; so only clicks after a resolution with three non-empty values
\* reach validation.
C12_ClickWithoutHostContext ==
    [][ (revision = "sidebar" /\ lastEvent' = "submit" /\ ~AllRetrieved) =>
            /\ opened' = <<>>
            /\ UNCHANGED formErrors
            /\ FormValuesUnchanged
            /\ logged' = 0 ]_vars

\* A click on an invalid form while init() is still pending, after the
\* user has already changed a field.
C12_Witness ==
    /\ revision = "sidebar"
    /\ lastEvent = "submit"
    /\ sdkState = "pending"
    /\ AnyLocaleChecked
    /\ ~AnyEnvironmentChecked
    /\ formErrors = <<>>
    /\ opened = <<>>

\* C13: a Submit click on a valid form opens one URL, leaves the error list
\* empty and every form value as it was, so the form is valid for the next
\* click too; every other event opens none, so the URLs opened are as many
\* as the Submit clicks made on a valid form; and a Submit click that
\* directly follows one that opened a URL opens a URL again, with the same
\* payload (the same URL text, or one that differs in the salt only).
C13_SubmitRepeats ==
    [][ /\ (lastEvent' = "submit" /\ FormSatisfiesRules) =>
                /\ formErrors' = <<>>
                /\ FormValuesUnchanged
                /\ FormSatisfiesRules'
        /\ Len(opened') = (IF lastEvent' = "submit" /\ FormSatisfiesRules
                           THEN 1 ELSE 0)
        /\ (opened # <<>> /\ lastEvent' = "submit") =>
                /\ opened' # <<>>
                /\ \/ opened'[1].url = opened[1].url
                   \/ LET new == DecodedPayload(opened'[1].url)
                      IN  new.ok /\ new = DecodedPayload(opened[1].url)
      ]_vars

\* A successful click in the sidebar revision: the values the host supplied
\* and the user's choices are all still in place after it.
C13_Witness ==
    /\ revision = "sidebar"
    /\ lastEvent = "submit"
    /\ FormSatisfiesRules
    /\ formErrors = <<>>
    /\ Len(opened) = 1
    /\ alerts = <<>>

\* The characters a base64 text is made of: A-Z, a-z, 0-9, '+', '/', '='.
Base64Chars ==
    {Base64Alphabet[i] : i \in 1..Len(Base64Alphabet)} \cup {PadChar}

IsAlphanumeric(c) ==
    c \in (48..57) \cup (65..90) \cup (97..122)

\* The text of a URL after the first '=' of its query, as it stands in the
\* URL (nothing decoded).
DataValue(url) ==
    SubSeq(url, IndexFrom(url, 61, IndexFrom(url, 63, 1)) + 1, Len(url))

\* Whether a base64 text has neither '+' nor '/'.
NoPlusNoSlash(text) ==
    \A j \in 1..Len(text) : text[j] \notin {43, 47}

\* Encoding any one, two or three of the given characters gives no '+' and
\* no '/'.
GroupsAvoidPlusAndSlash(chars) ==
    \A a \in chars :
        /\ NoPlusNoSlash(Base64Encode(<<a>>))
        /\ \A b \in chars :
            /\ NoPlusNoSlash(Base64Encode(<<a, b>>))
            /\ \A c \in chars : NoPlusNoSlash(Base64Encode(<<a, b, c>>))

\* C14: the data value stands in the URL as btoa produced it, and contains
\* no '+' and no '/': the ciphertext string it encodes is made of base64
\* characters only, no group of such characters encodes to sextet 62 or 63
\* (a fact of the encoding alone, evaluated once, when the form is mounted),
\* and so the value is alphanumeric except for at most two '=' at its end.
C14_DataValueIsUrlSafe ==
    /\ lastEvent = "init" => GroupsAvoidPlusAndSlash(Base64Chars)
    /\ opened # <<>> =>
            LET v == DataValue(opened[1].url)
                ciphertext == Base64Decode(v)
            IN  /\ ciphertext.ok
                /\ \A i \in 1..Len(ciphertext.bytes) :
                        ciphertext.bytes[i] \in Base64Chars
                /\ v = Btoa(ciphertext.bytes)
                /\ \A i \in 1..Len(v) :
                        /\ v[i] \notin {43, 47}
                        /\ IsAlphanumeric(v[i]) \/ v[i] = PadChar
                        /\ v[i] = PadChar =>
                                /\ i >= Len(v) - 1
                                /\ \A j \in i..Len(v) : v[j] = PadChar

\* A ciphertext string that itself contains '+' or '/', in a data value
\* that ends with padding.
C14_Witness ==
    /\ opened # <<>>
    /\ LET v == DataValue(opened[1].url)
           ciphertext == Base64Decode(v).bytes
       IN  /\ v[Len(v)] = PadChar
           /\ \E i \in 1..Len(ciphertext) : ciphertext[i] \in {43, 47}

====
